---- MODULE Spec2Model ----
(***************************************************************************)
(* Model of app.py, the Streamlit dashboard over the electric-vehicle      *)
(* registration table.  One run of the script is one render cycle: the     *)
(* table is loaded (cached), the sidebar widgets give the filter           *)
(* selection, the table is filtered, and the metrics, the six tabs and the *)
(* insights are computed from the filtered table.  An uncaught Python      *)
(* exception ends the cycle in pc = "crashed".                             *)
(***************************************************************************)
EXTENDS Integers, Sequences, FiniteSets, TLC

VARIABLES
    csv,                \* the file load_data() reads: Absent or Some([rows, columns])
    cache,              \* st.cache_data entry of load_data()
    pc,                 \* position of the script run
    error,              \* the uncaught exception of this run, or "none"
    df,                 \* the script's df: Absent (None) or Some([rows, columns])
    year_range,         \* <<lo, hi>> returned by the slider
    selected_states,
    selected_makes,
    selected_ev_types,
    filtered_df,        \* rows of the filtered table, in table order
    metrics,            \* Key Metrics row
    market,             \* tab1: make_counts, ev_type_counts, top_10_makes
    trends,             \* tab2: yearly_counts, fig_growth, yearly_make_data
    geo,                \* tab3: state_counts, city_counts
    range_tab,          \* tab4
    pricing,            \* tab5
    rankings,           \* tab6: model_counts, cafv_counts
    insights,           \* Key Insights section
    screen              \* which top-level message the run showed

vars == <<csv, cache, pc, error, df, year_range, selected_states, selected_makes,
          selected_ev_types, filtered_df, metrics, market, trends, geo,
          range_tab, pricing, rankings, insights, screen>>

-----------------------------------------------------------------------------
(* Bounds of the model.                                                    *)

MaxLen == 3             \* longest table read from the file

-----------------------------------------------------------------------------
(* Values.                                                                 *)

None == "none"
\* a Python name that is unbound or None, and one bound to v
Absent == <<>>
Some(v) == <<v>>
Get(o) == o[1]
NaN == [kind |-> "nan", num |-> 0, den |-> 0]
Inf == [kind |-> "inf", num |-> 1, den |-> 0]

Abs(x) == IF x < 0 THEN -x ELSE x

RECURSIVE GCD(_, _)
GCD(a, b) == IF b = 0 THEN a ELSE GCD(b, a % b)

\* A finite float result, kept exactly as a fraction in lowest terms.
Num(n, d) ==
    LET g == GCD(Abs(n), Abs(d))
        s == IF d < 0 THEN -1 ELSE 1
    IN  [kind |-> "num", num |-> s * (n \div g), den |-> s * (d \div g)]

isna(x) == x.kind = "nan"

\* float division as numpy does it on a column: x/0 is inf, 0/0 is NaN
FloatDiv(x, y) ==
    IF isna(x) \/ isna(y) THEN NaN
    ELSE IF y.num = 0 THEN (IF x.num = 0 THEN NaN ELSE Inf)
    ELSE Num(x.num * y.den, x.den * y.num)

FloatSub(x, y) ==
    IF x.kind # "num" \/ y.kind # "num" THEN x
    ELSE Num(x.num * y.den - y.num * x.den, x.den * y.den)

FloatMul(x, y) ==
    IF x.kind # "num" \/ y.kind # "num" THEN x
    ELSE Num(x.num * y.num, x.den * y.den)

Int2Float(n) == Num(n, 1)

\* x >= y for finite floats
FloatGE(a, b) == a.num * b.den >= b.num * a.den

\* f"{x:.0f}": the nearest integer, halves to the even one
Format0f(x) ==
    LET q == x.num \div x.den
        r == 2 * (x.num % x.den)
    IN  IF r < x.den THEN q
        ELSE IF r > x.den THEN q + 1
        ELSE IF q % 2 = 0 THEN q ELSE q + 1

-----------------------------------------------------------------------------
(* The rows a file can hold.  Electric Range 0 and Base MSRP 0 are the     *)
(* "unknown" entries of the source data.                                   *)

Row(y, s, c, mk, md, ev, rg, pr, cafv) ==
    [year |-> y, state |-> s, city |-> c, make |-> mk, model |-> md,
     ev |-> ev, range |-> rg, msrp |-> pr, cafv |-> cafv]

RowPool ==
    { Row(2020, "WA", "Seattle", "TESLA", "MODEL 3", "BEV",  200, 0,  "Eligible"),
      Row(2021, "CA", "Fresno",  "FORD",  "ESCAPE",  "PHEV", 0,   30, "Unknown"),
      Row(2021, "WA", "Seattle", "TESLA", "MODEL Y", "BEV",  100, 40, "Eligible"),
      Row(2022, "CA", "Fresno",  "FORD",  "MACH-E",  "BEV",  0,   0,  "Unknown") }

OptionalColumns == {"City", "Electric Range", "Base MSRP"}

\* the files: any table of at most MaxLen rows, with all columns or with
\* one optional column missing
ColumnSets == {OptionalColumns} \cup {OptionalColumns \ {c} : c \in OptionalColumns}

Tables == UNION { [1..n -> RowPool] : n \in 0..MaxLen }

Files == [rows : Tables, columns : ColumnSets]

\* Python's order on the strings of the model
AlphaOrder == <<"BEV", "CA", "ESCAPE", "Eligible", "FORD", "Fresno", "MACH-E",
                "MODEL 3", "MODEL Y", "PHEV", "Seattle", "TESLA", "Unknown",
                "WA">>

StrRank(s) == CHOOSE i \in 1..Len(AlphaOrder) : AlphaOrder[i] = s

-----------------------------------------------------------------------------
(* pandas helpers.                                                         *)

Column(rows, f) == [i \in 1..Len(rows) |-> rows[i][f]]

Range(s) == {s[i] : i \in 1..Len(s)}

\* Series.unique(): the distinct values in order of first appearance
RECURSIVE unique(_)
unique(s) ==
    IF s = <<>> THEN <<>>
    ELSE LET front == SubSeq(s, 1, Len(s) - 1)
             u == unique(front)
         IN  IF s[Len(s)] \in Range(front) THEN u ELSE Append(u, s[Len(s)])

Occurrences(s, v) == Cardinality({i \in 1..Len(s) : s[i] = v})

\* rows[mask]: boolean indexing keeps the rows whose mask entry is True, in
\* table order
RECURSIVE Select(_, _)
Select(rows, mask) ==
    IF rows = <<>> THEN <<>>
    ELSE LET n == Len(rows)
             front == Select(SubSeq(rows, 1, n - 1), SubSeq(mask, 1, n - 1))
         IN  IF mask[n] THEN Append(front, rows[n]) ELSE front

\* s.head(n)
head(s, n) == SubSeq(s, 1, IF n < Len(s) THEN n ELSE Len(s))

\* between with inclusive='neither'
between_open(x, left, right) == left < x /\ x < right

\* Series.between(left, right), inclusive on both ends
between(x, left, right) == left <= x /\ x <= right

\* an empty selection taken as "no filter"
isin_or_empty(x, values) == values = {} \/ x \in values

isin(x, values) == x \in values

len(s) == Len(s)

nunique(s) == Cardinality(Range(s))

\* one entry per distinct value, each counted once however often it occurs
CountsInOrder_presence(col) ==
    LET u == unique(col)
    IN  [i \in 1..Len(u) |-> [key |-> u[i], n |-> 1]]

\* the hash-table pass of value_counts: one entry per distinct value, in
\* order of first appearance
CountsInOrder(col) ==
    LET u == unique(col)
    IN  [i \in 1..Len(u) |-> [key |-> u[i], n |-> Occurrences(col, u[i])]]

Perms(n) == {p \in [1..n -> 1..n] : \A i, j \in 1..n : p[i] = p[j] => i = j}

\* Series.sort_values(ascending=False) with the default kind='quicksort':
\* the entries in descending order; quicksort is not a stable sort, so every
\* arrangement of equal entries is a possible result
sort_values_desc(s) ==
    { [i \in 1..Len(s) |-> s[p[i]]] :
        p \in {q \in Perms(Len(s)) :
                 \A i, j \in 1..Len(s) : i < j => FloatGE(s[q[i]].n, s[q[j]].n)} }

\* the same sort with ascending=True
sort_values_asc(s) ==
    { [i \in 1..Len(s) |-> s[p[i]]] :
        p \in {q \in Perms(Len(s)) :
                 \A i, j \in 1..Len(s) : i < j => FloatGE(s[q[j]].n, s[q[i]].n)} }

\* a Series of counts: int64 values
Counts(s) == [i \in 1..Len(s) |-> [key |-> s[i].key, n |-> s[i].n.num]]
Floats(s) == [i \in 1..Len(s) |-> [key |-> s[i].key, n |-> Int2Float(s[i].n)]]

\* value_counts(ascending=True): the least frequent value first
value_counts_ascending(col) ==
    {Counts(sorted) : sorted \in sort_values_asc(Floats(CountsInOrder(col)))}

\* Series.value_counts(): counts per distinct value, sorted descending
value_counts(col) ==
    {Counts(sorted) : sorted \in sort_values_desc(Floats(CountsInOrder(col)))}

\* the order of group keys: tuples of years (int) and strings, compared
\* entry by entry; `order` holds the position of each entry in its order
EntryOrder(f, x) == IF f = "year" THEN x ELSE StrRank(x)

KeyLess(a, b) ==
    \E i \in 1..Len(a.order) :
        /\ \A j \in 1..(i - 1) : a.order[j] = b.order[j]
        /\ a.order[i] < b.order[i]

\* the groups of a groupby, in ascending key order (sort=True)
SortAsc(S) ==
    [i \in 1..Cardinality(S) |->
        CHOOSE x \in S : Cardinality({y \in S : KeyLess(y, x)}) = i - 1]

\* groupby(by).size() for the key column(s) `by`: one count per observed
\* key, in ascending key order
groupby_size(by) ==
    LET keys == SortAsc(Range(by))
    IN  [i \in 1..Len(keys) |->
            [key |-> keys[i].key, n |-> Occurrences(by, keys[i])]]

RECURSIVE Sum(_)
Sum(s) == IF s = <<>> THEN 0 ELSE s[1] + Sum(Tail(s))

\* Series.mean(): NaN for an empty column
mean(s) == IF s = <<>> THEN NaN ELSE Num(Sum(s), Len(s))

\* Series.shift(1)
shift(s) == [i \in 1..Len(s) |-> IF i = 1 THEN NaN ELSE s[i - 1]]

\* the ratio to the previous entry, without the - 1
pct_change_ratio(s) ==
    LET floats == [i \in 1..Len(s) |-> Int2Float(s[i])]
        prev == shift(floats)
    IN  [i \in 1..Len(s) |-> FloatDiv(floats[i], prev[i])]

\* Series.pct_change(): s / s.shift(1) - 1
pct_change(s) ==
    LET floats == [i \in 1..Len(s) |-> Int2Float(s[i])]
        prev == shift(floats)
    IN  [i \in 1..Len(s) |-> FloatSub(FloatDiv(floats[i], prev[i]), Int2Float(1))]

\* the rows with a value >= 0 in column f: the 0 entries stay in
NonNegative(rows, f) == Select(rows, [i \in 1..Len(rows) |-> rows[i][f] >= 0])

\* the rows with a known (positive) value in column f
Positive(rows, f) == Select(rows, [i \in 1..Len(rows) |-> rows[i][f] > 0])

\* the key column(s) of a groupby: one tuple per row
By1(rows, f) ==
    [i \in 1..Len(rows) |->
        [key |-> <<rows[i][f]>>, order |-> <<EntryOrder(f, rows[i][f])>>]]
By2(rows, f, g) ==
    [i \in 1..Len(rows) |->
        [key |-> <<rows[i][f], rows[i][g]>>,
         order |-> <<EntryOrder(f, rows[i][f]), EntryOrder(g, rows[i][g])>>]]

(* Apply filters: the four masks combined with & *)
ApplyFilters(rows, yr, states, makes, ev_types) ==
    Select(rows, [i \in 1..Len(rows) |->
                    /\ between(rows[i].year, yr[1], yr[2])
                    /\ isin(rows[i].state, states)
                    /\ isin(rows[i].make, makes)
                    /\ isin(rows[i].ev, ev_types)])

-----------------------------------------------------------------------------
(* The script run.                                                         *)

\* the names of a run before the script binds them
Blank ==
    /\ error = None
    /\ df = Absent
    /\ year_range = Absent
    /\ selected_states = {}
    /\ selected_makes = {}
    /\ selected_ev_types = {}
    /\ filtered_df = Absent
    /\ metrics = Absent
    /\ market = Absent
    /\ trends = Absent
    /\ geo = Absent
    /\ range_tab = Absent
    /\ pricing = Absent
    /\ rankings = Absent
    /\ insights = Absent
    /\ screen = None

Init ==
    /\ csv \in {Absent} \cup {Some(f) : f \in Files}
    /\ cache = Absent
    /\ pc = "load"
    /\ Blank

(* df = load_data(): pd.read_csv(path) returns the table or raises         *)
(* FileNotFoundError; st.cache_data keeps a returned table for later runs. *)
(* The statements after "return df" are never executed.                    *)
LoadData ==
    /\ pc = "load"
    /\ IF cache # Absent
       THEN /\ df' = cache
            /\ pc' = "sidebar"
            /\ UNCHANGED <<cache, error>>
       ELSE IF csv = Absent
       THEN /\ error' = "FileNotFoundError"
            /\ pc' = "crashed"
            /\ UNCHANGED <<cache, df>>
       ELSE /\ df' = csv
            /\ cache' = csv
            /\ pc' = "sidebar"
            /\ UNCHANGED error
    /\ UNCHANGED <<csv, year_range, selected_states, selected_makes,
                   selected_ev_types, filtered_df, metrics, market, trends,
                   geo, range_tab, pricing, rankings, insights, screen>>

SetMin(S) == CHOOSE x \in S : \A y \in S : x <= y
SetMax(S) == CHOOSE x \in S : \A y \in S : x >= y

(* the filter applied in place: the rows that do not pass are dropped     *)
(* from the cached table itself                                            *)
Sidebar_inplace ==
    /\ pc = "sidebar"
    /\ IF df = Absent
       THEN /\ pc' = "footer"
            /\ screen' = "Data not loaded"
            /\ UNCHANGED <<error, year_range, selected_states, selected_makes,
                           selected_ev_types, filtered_df, df, cache>>
       ELSE IF Get(df).rows = <<>>
       THEN \* int(df['Model Year'].min()) of an empty column: int(nan)
            /\ pc' = "crashed"
            /\ error' = "ValueError"
            /\ UNCHANGED <<screen, year_range, selected_states, selected_makes,
                           selected_ev_types, filtered_df, df, cache>>
       ELSE LET rows == Get(df).rows
                years == Range(Column(rows, "year"))
                min_year == SetMin(years)
                max_year == SetMax(years)
            IN  \E lo \in min_year..max_year, hi \in min_year..max_year,
                   states \in SUBSET Range(Column(rows, "state")),
                   makes \in SUBSET Range(Column(rows, "make")),
                   ev_types \in SUBSET Range(Column(rows, "ev")) :
                    /\ lo <= hi
                    /\ year_range' = Some(<<lo, hi>>)
                    /\ selected_states' = states
                    /\ selected_makes' = makes
                    /\ selected_ev_types' = ev_types
                    /\ filtered_df' = Some(ApplyFilters(rows, <<lo, hi>>, states,
                                                        makes, ev_types))
                    /\ df' = Some([rows |-> ApplyFilters(rows, <<lo, hi>>, states,
                                                         makes, ev_types),
                                   columns |-> Get(df).columns])
                    /\ cache' = df'
                    /\ pc' = "main"
                    /\ UNCHANGED <<error, screen>>
    /\ UNCHANGED <<csv, metrics, market, trends, geo, range_tab, pricing,
                   rankings, insights>>

(* if df is not None: the filter widgets and the filtered table;           *)
(* else: the "Data not loaded" setup instructions                          *)
Sidebar ==
    /\ pc = "sidebar"
    /\ IF df = Absent
       THEN /\ pc' = "footer"
            /\ screen' = "Data not loaded"
            /\ UNCHANGED <<error, year_range, selected_states, selected_makes,
                           selected_ev_types, filtered_df>>
       ELSE IF Get(df).rows = <<>>
       THEN \* int(df['Model Year'].min()) of an empty column: int(nan)
            /\ pc' = "crashed"
            /\ error' = "ValueError"
            /\ UNCHANGED <<screen, year_range, selected_states, selected_makes,
                           selected_ev_types, filtered_df>>
       ELSE LET rows == Get(df).rows
                years == Range(Column(rows, "year"))
                min_year == SetMin(years)
                max_year == SetMax(years)
            IN  \E lo \in min_year..max_year, hi \in min_year..max_year,
                   states \in SUBSET Range(Column(rows, "state")),
                   makes \in SUBSET Range(Column(rows, "make")),
                   ev_types \in SUBSET Range(Column(rows, "ev")) :
                    /\ lo <= hi
                    /\ year_range' = Some(<<lo, hi>>)
                    /\ selected_states' = states
                    /\ selected_makes' = makes
                    /\ selected_ev_types' = ev_types
                    /\ filtered_df' = Some(ApplyFilters(rows, <<lo, hi>>, states,
                                                        makes, ev_types))
                    /\ pc' = "main"
                    /\ UNCHANGED <<error, screen>>
    /\ UNCHANGED <<csv, cache, df, metrics, market, trends, geo, range_tab,
                   pricing, rankings, insights>>

Keys(counts) == [i \in 1..Len(counts) |-> counts[i].key]

\* (count / len(filtered_df)) * 100
Percent(count, total) ==
    FloatMul(FloatDiv(Int2Float(count), Int2Float(total)), Int2Float(100))

\* filtered_df[filtered_df['Electric Range'] > 0]['Electric Range'].mean()
AvgRange(view) == mean(Column(Positive(view, "range"), "range"))

(* if len(filtered_df) > 0: the Key Metrics row; else: the warning.        *)
(* filtered_df['Electric Range'] raises KeyError when the column is not in *)
(* the table.                                                              *)
KeyMetrics ==
    /\ pc = "main"
    /\ LET view == Get(filtered_df)
           avg_range == AvgRange(view)
       IN  IF len(view) > 0
           THEN IF "Electric Range" \notin Get(df).columns
                THEN /\ pc' = "crashed"
                     /\ error' = "KeyError"
                     /\ UNCHANGED <<metrics, screen>>
                ELSE /\ metrics' = Some(
                          [total |-> len(view),
                           delta |-> IF len(view) # len(Get(df).rows)
                                     THEN Some(len(view) - len(Get(df).rows))
                                     ELSE Absent,
                           unique_makes |-> nunique(Column(view, "make")),
                           unique_models |-> nunique(Column(view, "model")),
                           avg_range |-> avg_range,
                           avg_range_label |-> IF ~isna(avg_range)
                                               THEN ToString(Format0f(avg_range))
                                               ELSE "N/A",
                           states |-> nunique(Column(view, "state"))])
                     /\ pc' = "tab1"
                     /\ UNCHANGED <<error, screen>>
           ELSE /\ screen' = "No data matches"
                /\ pc' = "footer"
                /\ UNCHANGED <<error, metrics>>
    /\ UNCHANGED <<csv, cache, df, year_range, selected_states, selected_makes,
                   selected_ev_types, filtered_df, market, trends, geo,
                   range_tab, pricing, rankings, insights>>

(* tab1, Market Analysis *)
TabMarket ==
    /\ pc = "tab1"
    /\ LET view == Get(filtered_df)
       IN  \E makes \in value_counts(Column(view, "make")),
              ev_types \in value_counts(Column(view, "ev")) :
               market' = Some([make_counts |-> head(makes, 15),
                               ev_type_counts |-> ev_types,
                               top_10_makes |-> head(head(makes, 15), 10)])
    /\ pc' = "tab2"
    /\ UNCHANGED <<csv, cache, error, df, year_range, selected_states,
                   selected_makes, selected_ev_types, filtered_df, metrics,
                   trends, geo, range_tab, pricing, rankings, insights, screen>>

\* yearly_counts['Count'].pct_change() * 100
GrowthRate(counts) ==
    LET pct == pct_change(counts)
    IN  [i \in 1..Len(counts) |-> FloatMul(pct[i], Int2Float(100))]

\* a count for every year from the first to the last, observed or not
YearlyCounts_dense(view) ==
    LET years == Range(Column(view, "year"))
        first == CHOOSE x \in years : \A y \in years : x <= y
        last == CHOOSE x \in years : \A y \in years : x >= y
    IN  [i \in 1..(last - first + 1) |->
            [Year |-> first + i - 1,
             Count |-> Occurrences(Column(view, "year"), first + i - 1)]]

\* filtered_df.groupby('Model Year').size().reset_index()
YearlyCounts(view) ==
    LET sizes == groupby_size(By1(view, "year"))
    IN  [i \in 1..Len(sizes) |-> [Year |-> sizes[i].key[1], Count |-> sizes[i].n]]

\* the rows of the five most frequent makes, grouped by year and make
YearlyMakeData(view, top_makes) ==
    LET top_rows == Select(view, [i \in 1..Len(view) |->
                                     isin(view[i].make, Range(top_makes))])
        sizes == groupby_size(By2(top_rows, "year", "make"))
    IN  [i \in 1..Len(sizes) |->
            [Year |-> sizes[i].key[1], Make |-> sizes[i].key[2],
             Count |-> sizes[i].n]]

(* tab2, Time Trends.  value_counts() of the same column gives what it gave *)
(* in tab1.                                                                *)
TabTrends ==
    /\ pc = "tab2"
    /\ LET view == Get(filtered_df)
           yearly_counts == YearlyCounts(view)
           counts == [i \in 1..Len(yearly_counts) |-> yearly_counts[i].Count]
           growth == GrowthRate(counts)
       IN  \E makes \in value_counts(Column(view, "make")) :
               /\ head(makes, 15) = Get(market).make_counts
               /\ trends' = Some(
                    [yearly_counts |-> yearly_counts,
                     Growth_Rate |-> IF len(yearly_counts) > 1
                                     THEN Some(growth) ELSE Absent,
                     fig_growth |-> IF len(yearly_counts) > 1
                                    THEN Some(Tail([i \in 1..Len(yearly_counts) |->
                                            [Year |-> yearly_counts[i].Year,
                                             Growth_Rate |-> growth[i]]]))
                                    ELSE Absent,
                     top_makes |-> Keys(head(makes, 5)),
                     yearly_make_data |->
                         YearlyMakeData(view, Keys(head(makes, 5)))])
    /\ pc' = "tab3"
    /\ UNCHANGED <<csv, cache, error, df, year_range, selected_states,
                   selected_makes, selected_ev_types, filtered_df, metrics,
                   market, geo, range_tab, pricing, rankings, insights, screen>>

(* tab3, Geographic *)
TabGeo ==
    /\ pc = "tab3"
    /\ LET view == Get(filtered_df)
       IN  \E states \in value_counts(Column(view, "state")),
              cities \in value_counts(Column(view, "city")) :
               geo' = Some([state_counts |-> states,
                            city_counts |-> IF "City" \in Get(df).columns
                                            THEN Some(head(cities, 20))
                                            ELSE Absent])
    /\ pc' = "tab4"
    /\ UNCHANGED <<csv, cache, error, df, year_range, selected_states,
                   selected_makes, selected_ev_types, filtered_df, metrics,
                   market, trends, range_tab, pricing, rankings, insights,
                   screen>>

(* tab4, Range Analysis *)
TabRange ==
    /\ pc = "tab4"
    /\ LET view == Get(filtered_df)
           range_data == Positive(view, "range")
       IN  IF "Electric Range" \in Get(df).columns
           THEN IF len(range_data) > 0
                THEN \E makes \in value_counts(Column(view, "make")) :
                        /\ head(makes, 15) = Get(market).make_counts
                        /\ range_tab' = Some(
                             [shown |-> "charts",
                              range_data |-> range_data,
                              range_by_make |->
                                  Select(range_data,
                                      [i \in 1..Len(range_data) |->
                                          isin(range_data[i].make,
                                               Range(Keys(head(makes, 10))))])])
                ELSE range_tab' = Some([shown |-> "No range data available",
                                        range_data |-> <<>>,
                                        range_by_make |-> <<>>])
           ELSE range_tab' = Some([shown |-> "Electric Range column not found",
                                   range_data |-> <<>>,
                                   range_by_make |-> <<>>])
    /\ pc' = "tab5"
    /\ UNCHANGED <<csv, cache, error, df, year_range, selected_states,
                   selected_makes, selected_ev_types, filtered_df, metrics,
                   market, trends, geo, pricing, rankings, insights, screen>>

\* price_data.groupby('Make')['Base MSRP'].mean()
MeanPriceByMake(price_data) ==
    LET makes == SortAsc(Range(By1(price_data, "make")))
    IN  [i \in 1..Len(makes) |->
            [key |-> makes[i].key[1],
             n |-> mean(Column(Select(price_data,
                                      [j \in 1..Len(price_data) |->
                                          price_data[j].make = makes[i].key[1]]),
                               "msrp"))]]

(* tab5, Pricing *)
TabPricing ==
    /\ pc = "tab5"
    /\ LET view == Get(filtered_df)
           price_data == Positive(view, "msrp")
       IN  IF "Base MSRP" \in Get(df).columns
           THEN IF len(price_data) > 0
                THEN \E by_make \in sort_values_desc(MeanPriceByMake(price_data)) :
                        pricing' = Some(
                            [shown |-> "charts",
                             avg_price_by_make |-> head(by_make, 15),
                             price_range_data |->
                                 IF "Electric Range" \in Get(df).columns
                                 THEN Positive(price_data, "range")
                                 ELSE <<>>])
                ELSE pricing' = Some([shown |-> "No pricing data available",
                                      avg_price_by_make |-> <<>>,
                                      price_range_data |-> <<>>])
           ELSE pricing' = Some([shown |-> "Base MSRP column not found",
                                 avg_price_by_make |-> <<>>,
                                 price_range_data |-> <<>>])
    /\ pc' = "tab6"
    /\ UNCHANGED <<csv, cache, error, df, year_range, selected_states,
                   selected_makes, selected_ev_types, filtered_df, metrics,
                   market, trends, geo, range_tab, rankings, insights, screen>>

\* the first 15 groups in key order, without the sort_values
ModelCounts_unsorted(view) ==
    { head(groupby_size(By2(view, "make", "model")), 15) }

\* filtered_df.groupby(['Make', 'Model']).size().sort_values(ascending=False).head(15)
ModelCounts(view) ==
    { head(Counts(sorted), 15) :
        sorted \in sort_values_desc(Floats(groupby_size(By2(view, "make", "model")))) }

(* tab6, Rankings *)
TabRankings ==
    /\ pc = "tab6"
    /\ LET view == Get(filtered_df)
       IN  \E model_counts \in ModelCounts(view),
              cafv_counts \in value_counts(Column(view, "cafv")) :
               rankings' = Some(
                   [model_df |-> [i \in 1..Len(model_counts) |->
                                    [Make |-> model_counts[i].key[1],
                                     Model |-> model_counts[i].key[2],
                                     Count |-> model_counts[i].n]],
                    cafv_counts |-> cafv_counts])
    /\ pc' = "insights"
    /\ UNCHANGED <<csv, cache, error, df, year_range, selected_states,
                   selected_makes, selected_ev_types, filtered_df, metrics,
                   market, trends, geo, range_tab, pricing, insights, screen>>

(* Key Insights.  Each value_counts() gives what it gave in the tabs.      *)
Insights ==
    /\ pc = "insights"
    /\ LET view == Get(filtered_df)
           avg_range == AvgRange(view)
       IN  \E makes \in value_counts(Column(view, "make")) :
               /\ head(makes, 15) = Get(market).make_counts
               /\ insights' = Some(
                    [top_make |-> makes[1].key,
                     top_make_count |-> makes[1].n,
                     top_make_pct |-> Percent(makes[1].n, len(view)),
                     avg_range |-> IF "Electric Range" \in Get(df).columns
                                      /\ ~isna(avg_range)
                                   THEN Some(Format0f(avg_range))
                                   ELSE Absent,
                     most_common_type |-> Get(market).ev_type_counts[1].key,
                     type_pct |-> Percent(Get(market).ev_type_counts[1].n,
                                          len(view)),
                     top_state |-> Get(geo).state_counts[1].key,
                     state_count |-> Get(geo).state_counts[1].n,
                     state_pct |-> Percent(Get(geo).state_counts[1].n,
                                           len(view))])
    /\ pc' = "footer"
    /\ UNCHANGED <<csv, cache, error, df, year_range, selected_states,
                   selected_makes, selected_ev_types, filtered_df, metrics,
                   market, trends, geo, range_tab, pricing, rankings, screen>>

(* Footer and the rest of the sidebar: nothing of the pipeline changes *)
Footer ==
    /\ pc = "footer"
    /\ pc' = "done"
    /\ UNCHANGED <<csv, cache, error, df, year_range, selected_states,
                   selected_makes, selected_ev_types, filtered_df, metrics,
                   market, trends, geo, range_tab, pricing, rankings, insights,
                   screen>>

(* A widget interaction reruns the script from the top: every name of the  *)
(* script is bound anew, only the st.cache_data entry survives.            *)
Rerun ==
    /\ pc \in {"done", "crashed"}
    /\ pc' = "load"
    /\ error' = None
    /\ df' = Absent
    /\ year_range' = Absent
    /\ selected_states' = {}
    /\ selected_makes' = {}
    /\ selected_ev_types' = {}
    /\ filtered_df' = Absent
    /\ metrics' = Absent
    /\ market' = Absent
    /\ trends' = Absent
    /\ geo' = Absent
    /\ range_tab' = Absent
    /\ pricing' = Absent
    /\ rankings' = Absent
    /\ insights' = Absent
    /\ screen' = None
    /\ UNCHANGED <<csv, cache>>

Next ==
    \/ LoadData
    \/ Sidebar
    \/ KeyMetrics
    \/ TabMarket
    \/ TabTrends
    \/ TabGeo
    \/ TabRange
    \/ TabPricing
    \/ TabRankings
    \/ Insights
    \/ Footer
    \/ Rerun

Spec == Init /\ [][Next]_vars

-----------------------------------------------------------------------------
(* The filter expression on its own: it is applied to any table and any    *)
(* selection, also a year range with lo > hi and values no row has.        *)

AllYears == {r.year : r \in RowPool}
AllStates == {r.state : r \in RowPool}
AllMakes == {r.make : r \in RowPool}
AllEvTypes == {r.ev : r \in RowPool}

AnyFilter ==
    /\ pc = "sidebar"
    /\ \E lo \in AllYears, hi \in AllYears, states \in SUBSET AllStates,
          makes \in SUBSET AllMakes, ev_types \in SUBSET AllEvTypes :
           /\ year_range' = Some(<<lo, hi>>)
           /\ selected_states' = states
           /\ selected_makes' = makes
           /\ selected_ev_types' = ev_types
           /\ filtered_df' = Some(ApplyFilters(Get(df).rows, <<lo, hi>>, states,
                                               makes, ev_types))
    /\ pc' = "done"
    /\ UNCHANGED <<csv, cache, error, df, metrics, market, trends, geo,
                   range_tab, pricing, rankings, insights, screen>>

NextFilter == LoadData \/ AnyFilter

SpecFilter == Init /\ [][NextFilter]_vars

-----------------------------------------------------------------------------
(* Properties.                                                             *)

\* the four conditions of the filter, written out for one row
Passes(r) ==
    /\ Get(year_range)[1] <= r.year
    /\ r.year <= Get(year_range)[2]
    /\ r.state \in selected_states
    /\ r.make \in selected_makes
    /\ r.ev \in selected_ev_types

\* C1: a row is in the filtered table iff its year is within the closed
\* year range and its state, make and EV type are in the selected sets;
\* every passing row is there as often as in the table, no other row is.
\* With an empty set, or a year range with lo > hi, no row passes.
C1_FilterConjunction ==
    filtered_df # Absent =>
        /\ \A r \in RowPool :
            /\ (r \in Range(Get(filtered_df))) <=>
                   (r \in Range(Get(df).rows) /\ Passes(r))
            /\ Occurrences(Get(filtered_df), r) =
                   IF Passes(r) THEN Occurrences(Get(df).rows, r) ELSE 0
        /\ Get(year_range)[1] > Get(year_range)[2] => Get(filtered_df) = <<>>
        /\ {} \in {selected_states, selected_makes, selected_ev_types} =>
               Get(filtered_df) = <<>>

C1_Witness ==
    /\ filtered_df # Absent
    /\ Len(Get(filtered_df)) > 0
    /\ Len(Get(filtered_df)) < Len(Get(df).rows)
    /\ Get(year_range)[1] = Get(year_range)[2]

\* C2: with no state selected the filtered table is empty, no metric, tab or
\* insight is computed, nothing raises, and the run shows the "no data
\* matches" warning.
C2_EmptyStates ==
    (filtered_df # Absent /\ selected_states = {}) =>
        /\ Get(filtered_df) = <<>>
        /\ error = None
        /\ pc \in {"main", "footer", "done"}
        /\ metrics = Absent /\ market = Absent /\ trends = Absent
        /\ geo = Absent /\ range_tab = Absent /\ pricing = Absent
        /\ rankings = Absent /\ insights = Absent
        /\ pc \in {"footer", "done"} => screen = "No data matches"

C2_Witness ==
    /\ pc = "done"
    /\ selected_states = {}
    /\ selected_makes # {}
    /\ selected_ev_types # {}
    /\ Get(filtered_df) = <<>>
    /\ screen = "No data matches"

C4_GrowthRate ==
    /\ GrowthRate(<<5, 10, 0>>) = <<NaN, Num(100, 1), Num(-100, 1)>>
    /\ trends # Absent =>
        LET t == Get(trends)
            yc == t.yearly_counts
        IN  /\ \A i \in 2..Len(yc) : yc[i - 1].Year < yc[i].Year
            /\ (t.Growth_Rate = Absent) <=> (Len(yc) <= 1)
            /\ (t.fig_growth = Absent) <=> (Len(yc) <= 1)
            /\ t.Growth_Rate # Absent =>
                LET g == Get(t.Growth_Rate)
                    fig == Get(t.fig_growth)
                IN  /\ Len(g) = Len(yc)
                    /\ isna(g[1])
                    /\ Len(fig) = Len(yc) - 1
                    /\ \A i \in 2..Len(yc) :
                        /\ g[i].kind = "num"
                        /\ g[i].den > 0
                        /\ g[i].num * yc[i - 1].Count =
                               (yc[i].Count - yc[i - 1].Count) * 100 * g[i].den
                        /\ fig[i - 1] = [Year |-> yc[i].Year, Growth_Rate |-> g[i]]

C4_Witness ==
    /\ trends # Absent
    /\ Get(trends).fig_growth # Absent
    /\ Get(Get(trends).fig_growth) =
           <<[Year |-> 2021, Growth_Rate |-> Num(100, 1)]>>

\* C5: with an optional column (City, Electric Range, Base MSRP) missing
\* from the table, the aggregates that need it are skipped and the run
\* completes without raising.
C5_MissingColumnTolerated ==
    (df # Absent /\ Get(df).columns # OptionalColumns) => error # "KeyError"

\* C6: when the file cannot be read the run does not crash, it shows the
\* "Data not loaded" instructions, and no filter, tab or insight is computed.
C6_LoadFailureHandled ==
    (csv = Absent /\ pc # "load") =>
        /\ pc # "crashed"
        /\ error = None
        /\ filtered_df = Absent /\ metrics = Absent /\ insights = Absent
        /\ pc = "done" => screen = "Data not loaded"

\* the number of rows of the filtered table with value v in column f
CountOf(f, v) ==
    Cardinality({i \in 1..Len(Get(filtered_df)) : Get(filtered_df)[i][f] = v})

\* a float x is count / total * 100
IsShare(x, count, total) ==
    /\ x.kind = "num"
    /\ x.den > 0
    /\ x.num * total = count * 100 * x.den

\* C7: each percentage insight names a value with a maximal count in its
\* column of the filtered table and reports count / len * 100; insights are
\* computed only for a non-empty filtered table, and an empty one gives no
\* insight and no error.  3 of 4 rows is 75%.
C7_PercentageInsights ==
    /\ Percent(3, 4) = Num(75, 1)
    /\ (filtered_df # Absent /\ Get(filtered_df) = <<>>) =>
           (insights = Absent /\ error = None)
    /\ insights # Absent =>
        LET ins == Get(insights)
            total == Len(Get(filtered_df))
        IN  /\ total > 0
            /\ ins.top_make_count = CountOf("make", ins.top_make)
            /\ \A r \in RowPool : CountOf("make", r.make) <= ins.top_make_count
            /\ IsShare(ins.top_make_pct, ins.top_make_count, total)
            /\ \A r \in RowPool :
                   CountOf("ev", r.ev) <= CountOf("ev", ins.most_common_type)
            /\ IsShare(ins.type_pct, CountOf("ev", ins.most_common_type), total)
            /\ ins.state_count = CountOf("state", ins.top_state)
            /\ \A r \in RowPool : CountOf("state", r.state) <= ins.state_count
            /\ IsShare(ins.state_pct, ins.state_count, total)

C7_Witness ==
    /\ insights # Absent
    /\ Len(Get(filtered_df)) = 3
    /\ Get(insights).top_make = "TESLA"
    /\ Get(insights).top_make_count = 2
    /\ Get(insights).top_make_pct = Num(200, 3)
    /\ Get(insights).top_state = "WA"

\* the Electric Range values of the filtered table
ViewRanges == Column(Get(filtered_df), "range")
KnownRanges == {i \in 1..Len(ViewRanges) : ViewRanges[i] > 0}

\* C8: the average range is the mean of the Electric Range values above 0
\* (0, 100, 0, 200 give 150); with no such value the metric reads "N/A",
\* the insight is left out and the range tab shows a warning: NaN is never
\* shown.
C8_AverageRange ==
    /\ AvgRange(<<[range |-> 0], [range |-> 100], [range |-> 0],
                  [range |-> 200]>>) = Num(150, 1)
    /\ metrics # Absent =>
        LET m == Get(metrics)
        IN  IF KnownRanges = {}
            THEN isna(m.avg_range) /\ m.avg_range_label = "N/A"
            ELSE /\ m.avg_range.kind = "num"
                 /\ m.avg_range.den > 0
                 \* the 0 entries add nothing to the sum of all entries
                 /\ m.avg_range.num * Cardinality(KnownRanges) =
                        Sum(ViewRanges) * m.avg_range.den
                 /\ m.avg_range_label = ToString(Format0f(m.avg_range))
    /\ range_tab # Absent =>
        /\ (Get(range_tab).shown = "charts") <=> (KnownRanges # {})
        /\ (Get(range_tab).shown = "No range data available") <=>
               (KnownRanges = {})
        /\ \A i \in 1..Len(Get(range_tab).range_data) :
               Get(range_tab).range_data[i].range > 0
    /\ insights # Absent =>
        /\ (Get(insights).avg_range = Absent) <=> (KnownRanges = {})
        /\ Get(insights).avg_range # Absent =>
               Get(Get(insights).avg_range) = Format0f(Get(metrics).avg_range)

C8_Witness ==
    /\ insights # Absent
    /\ Len(ViewRanges) = 3
    /\ 0 \in Range(ViewRanges)
    /\ Get(metrics).avg_range = Num(150, 1)
    /\ Get(metrics).avg_range_label = "150"
    /\ Get(insights).avg_range = Some(150)

C8_WitnessNoData ==
    /\ insights # Absent
    /\ Get(metrics).avg_range_label = "N/A"
    /\ Get(insights).avg_range = Absent
    /\ Get(range_tab).shown = "No range data available"

CountDescending(table) ==
    \A i \in 2..Len(table) : table[i - 1].Count >= table[i].Count

\* C9 as stated: both group-by tables (year x make, make x model) have one
\* count per observed combination and their rows are in descending order of
\* count.
C9_BothGroupBysCountDescending ==
    /\ trends # Absent => CountDescending(Get(trends).yearly_make_data)
    /\ rankings # Absent => CountDescending(Get(rankings).model_df)

\* C9 amended: the make x model table has one row per observed combination
\* with its count (the 15 largest), in descending order of count; the
\* year x make table has one row per observed combination of a year and one
\* of the five most frequent makes, with its count, in ascending order of
\* year and then make.
C9_GroupByCounts ==
    /\ rankings # Absent =>
        LET t == Get(rankings).model_df
            view == Get(filtered_df)
            combos == {<<view[i].make, view[i].model>> : i \in 1..Len(view)}
        IN  /\ CountDescending(t)
            /\ Len(t) = IF Cardinality(combos) < 15 THEN Cardinality(combos) ELSE 15
            /\ \A i, j \in 1..Len(t) :
                   (t[i].Make = t[j].Make /\ t[i].Model = t[j].Model) => i = j
            /\ \A i \in 1..Len(t) :
                   /\ t[i].Count > 0
                   /\ t[i].Count = Cardinality({k \in 1..Len(view) :
                          view[k].make = t[i].Make /\ view[k].model = t[i].Model})
    /\ trends # Absent =>
        LET t == Get(trends).yearly_make_data
            view == Get(filtered_df)
            top == Range(Get(trends).top_makes)
            combos == {<<view[i].year, view[i].make>> :
                          i \in {k \in 1..Len(view) : view[k].make \in top}}
        IN  /\ Len(t) = Cardinality(combos)
            /\ \A i \in 1..Len(t) :
                   /\ <<t[i].Year, t[i].Make>> \in combos
                   /\ t[i].Count = Cardinality({k \in 1..Len(view) :
                          view[k].year = t[i].Year /\ view[k].make = t[i].Make})
            /\ \A i \in 2..Len(t) :
                   \/ t[i - 1].Year < t[i].Year
                   \/ /\ t[i - 1].Year = t[i].Year
                      /\ StrRank(t[i - 1].Make) < StrRank(t[i].Make)

C9_Witness ==
    /\ rankings # Absent
    /\ Len(Get(rankings).model_df) = 2
    /\ Get(rankings).model_df[1].Count = 2
    /\ Len(Get(trends).yearly_make_data) = 2
    /\ Get(trends).yearly_make_data[1].Count = 1
    /\ Get(trends).yearly_make_data[2].Count = 2

\* the value counts of a column, most frequent first, equal counts in order
\* of first appearance
RECURSIVE StableRanking(_)
StableRanking(counts) ==
    IF counts = <<>> THEN <<>>
    ELSE LET best == CHOOSE i \in 1..Len(counts) :
                        /\ \A j \in 1..Len(counts) : counts[j].n <= counts[i].n
                        /\ \A j \in 1..(i - 1) : counts[j].n < counts[i].n
         IN  <<counts[best]>> \o
             StableRanking(SubSeq(counts, 1, best - 1) \o
                           SubSeq(counts, best + 1, Len(counts)))

\* C10: a value count lists each distinct value of the column with its
\* number of rows, most frequent first and equal counts in order of first
\* appearance; the top-15 and top-10 makes are the first entries of that
\* ranking.
C10_ValueCountOrder ==
    market # Absent =>
        LET ranking == StableRanking(CountsInOrder(Column(Get(filtered_df), "make")))
        IN  /\ Get(market).make_counts = head(ranking, 15)
            /\ Get(market).top_10_makes = head(ranking, 10)
            /\ Get(market).ev_type_counts =
                   StableRanking(CountsInOrder(Column(Get(filtered_df), "ev")))

\* the sum of the counts of a value-count Series
TotalCount(counts) == Sum([i \in 1..Len(counts) |-> counts[i].n])

\* C11: the counts of every value count taken without truncation (EV type,
\* state, CAFV eligibility, and make before head(15)) add up to the number
\* of rows of the filtered table.
C11_CountConservation ==
    LET total == Len(Get(filtered_df))
    IN  /\ market # Absent =>
            /\ TotalCount(Get(market).ev_type_counts) = total
            /\ \A makes \in value_counts(Column(Get(filtered_df), "make")) :
                   TotalCount(makes) = total
        /\ geo # Absent => TotalCount(Get(geo).state_counts) = total
        /\ rankings # Absent => TotalCount(Get(rankings).cafv_counts) = total

C11_Witness ==
    /\ rankings # Absent
    /\ Len(Get(filtered_df)) = 3
    /\ Len(Get(df).rows) = 3
    /\ Len(Get(market).ev_type_counts) = 2
    /\ Len(Get(geo).state_counts) = 2
    /\ Len(Get(rankings).cafv_counts) = 2
    /\ Get(rankings).cafv_counts[1].n = 2

\* the k-th smallest element of a set of integers
NthSmallest(S, k) == CHOOSE x \in S : Cardinality({y \in S : y < x}) = k - 1

\* the rows of the file that pass the current selection, in file order
ViewOfFile ==
    LET rows == Get(csv).rows
        passing == {i \in 1..Len(rows) : Passes(rows[i])}
    IN  [k \in 1..Cardinality(passing) |-> rows[NthSmallest(passing, k)]]

\* C12: over any sequence of runs and selections the loaded table stays
\* what was read from the file, and the filtered table of a run is
\* determined by that table and the run's selection alone: the passing rows
\* in table order, whatever was selected in earlier runs.
C12_ViewDeterminedByTableAndSelection ==
    /\ [](cache # Absent => cache = csv)
    /\ [](df # Absent => df = csv)
    /\ [](filtered_df # Absent => Get(filtered_df) = ViewOfFile)
    /\ [][/\ csv' = csv
          /\ cache # Absent => cache' = cache
          /\ (filtered_df # Absent /\ filtered_df' # Absent) =>
                 filtered_df' = filtered_df]_vars

C12_Witness ==
    /\ pc = "done"
    /\ cache = csv
    /\ filtered_df # Absent
    /\ Len(Get(csv).rows) = 3
    /\ Len(Get(filtered_df)) = 2
    /\ ~Passes(Get(csv).rows[2])
    /\ Get(filtered_df) = <<Get(csv).rows[1], Get(csv).rows[3]>>
    /\ Get(filtered_df)[1].year > Get(filtered_df)[2].year

====
